---- MODULE Spec2Model ----
(***************************************************************************)
(* Model of the client-side session store (contexts/AuthContext.tsx) and   *)
(* of the notification center (contexts/NotificationCenterContext.tsx) of  *)
(* ResearchCollab.  React state is modelled at the granularity of the      *)
(* event loop: one action is one run-to-completion segment of a handler,   *)
(* from a call or the resolution of an await up to the next await.         *)
(***************************************************************************)
EXTENDS Integers, Sequences, FiniteSets, TLC

\* ---------------------------------------------------------------- bounds
MaxHandlers == 1     \* session-change handlers awaiting their profile fetch
MaxSignOuts == 1     \* overlapping signOut() calls
MaxEmailLen == 3     \* characters of an e-mail address given to signUp
MaxCalls    == 2     \* calls made to the notification center in one run
MaxMsgs     == 2     \* rows inserted into the messages table of the project
MaxFetches  == 2     \* fetchProjectDetails() calls of the project page suspended at a time
MaxToasts   == 3     \* toasts added in one run
MaxDuration == 2     \* longest time-to-live of a toast, in ticks of the clock
\* the page size: NOTIFICATIONS_PER_PAGE is 10 in the source, and every caller
\* of fetchNotifications leaves `limit` at that default
NOTIFICATIONS_PER_PAGE == 2

\* ------------------------------------------------------------ value sets
NULL == "null"
Users == {"u1", "u2"}                 \* identities; a session is named by its user
SessionValues == Users \cup {NULL}
Names == {"n0", "n1"}                 \* the one profile field that updates change
NoProfile == [id |-> NULL, name |-> NULL]        \* user === null
Profiles == [id : Users, name : Names]
EventKinds == {"INITIAL_SESSION", "SIGNED_IN", "SIGNED_OUT",
               "TOKEN_REFRESHED", "PASSWORD_RECOVERY"}
Chars == {"a", "b", "@"}
EmptyStr == << >>

\* --------------------------------------------------------------- strings
RECURSIVE StringsUpTo(_)
StringsUpTo(n) ==
  IF n = 0 THEN {EmptyStr}
  ELSE LET S == StringsUpTo(n - 1)
       IN  S \cup {Append(s, c) : s \in {t \in S : Len(t) = n - 1}, c \in Chars}

Emails == StringsUpTo(MaxEmailLen)

\* the value of UNIVERSITY_EMAIL_DOMAINS when VITE_UNIVERSITY_EMAIL_DOMAINS is
\* not set is the one domain "aau.edu.et", written here as the domain "a"
DefaultDomains == << <<"a">> >>
\* an address of the approved domain and one of another domain
AuthEmails == { <<"b", "@", "a">>, <<"a", "@", "b">> }
\* the identities that sign in on one device in the store's specification
AuthUsers == {"u1"}

\* the values of UNIVERSITY_EMAIL_DOMAINS the model ranges over
DomainLists == { << >>, << EmptyStr >>, << <<"a">> >>,
                 << <<"a">>, <<"b">> >>, << EmptyStr, <<"b", "a">> >> }

\* Variant: the index of the first ch (indexOf).
lastIndexOf_First(s, ch) ==
  LET hits == {i \in 1..Len(s) : s[i] = ch}
  IN  IF hits = {} THEN -1
      ELSE (CHOOSE i \in hits : \A j \in hits : i <= j) - 1

\* String.prototype.lastIndexOf(ch): 0-based index of the last ch, -1 if none
lastIndexOf(s, ch) ==
  LET hits == {i \in 1..Len(s) : s[i] = ch}
  IN  IF hits = {} THEN -1
      ELSE (CHOOSE i \in hits : \A j \in hits : j <= i) - 1

\* String.prototype.substring(start) for 0 <= start <= length
substring(s, start) == SubSeq(s, start + 1, Len(s))

\* Array.prototype.includes
includes(arr, x) == \E i \in 1..Len(arr) : arr[i] = x

VARIABLES
  session,          \* useState<Session|null>: NULL or the session's user id
  user,             \* useState<UserProfile|null>: NoProfile or a profile row
  loading,          \* useState<boolean>(true)
  isSigningOutRef,  \* useRef(false)
  setDataPc,        \* position of setData(): "getSession", "profile", "done"
  setDataUser,      \* currentSession.user of setData while it fetches the profile
  handlers,         \* onAuthStateChange handlers suspended in fetchUserProfile
  signOutCalls,     \* signOut() calls suspended in supabase.auth.signOut()
  signInCalls,      \* signInWithPassword() calls suspended in the auth call (0 or 1)
  signUpCalls,      \* signUp() calls suspended in supabase.auth.signUp() (0 or 1)
  updateCalls,      \* updateUserProfile() calls suspended in the update query (0 or 1)
  dbUsers,          \* the users table of the backend: name of each identity
  domains,          \* UNIVERSITY_EMAIL_DOMAINS
  soWindow,         \* history: a signOut() was requested and no SIGNED_OUT event seen since
  soOpen,           \* history: as soWindow, and no signOut() call has returned since
  lastAuth          \* history: the last store step

VARIABLES
  ncUser,                \* useAuth().user as the notification center sees it: NULL or an identity
  notifications,         \* useState<AppNotification[]>([]): rows [id, is_read]
  unreadCount,           \* useState<number>(0)
  isLoading,             \* useState<boolean>(false)
  currentPage,           \* useState<number>(1)
  hasMoreNotifications,  \* useState<boolean>(true)
  isDropdownOpen,        \* NotificationBell: useState(false)
  fetches,               \* fetchNotifications() calls suspended in a query
  marks,                 \* handleMarkAsRead() calls suspended in the update
  markAlls,              \* handleMarkAllAsRead() calls suspended in the update
  refreshes,             \* refreshUnreadCount() calls of a consumer suspended in the count query
  ncCalls,               \* history: calls made to the notification center so far
  srvRead,               \* the notifications table: is_read of each row of the user
  lastOkPage,            \* history: page number of the last successful page fetch, 0 if none
  lastNc                 \* history: the last notification-center step

ncVars == <<ncUser, notifications, unreadCount, isLoading, currentPage,
            hasMoreNotifications, isDropdownOpen, fetches, marks, markAlls,
            refreshes, ncCalls, srvRead, lastOkPage, lastNc>>

authVars == <<session, user, loading, isSigningOutRef, setDataPc, setDataUser,
              handlers, signOutCalls, signInCalls, signUpCalls, updateCalls,
              dbUsers, domains, soWindow, soOpen, lastAuth>>

VARIABLES
  chatProject,      \* useState<Project|null>: "none", or loaded "chat" / "nochat" (canChat)
  chatLoading,      \* useState(true): isLoading of the page
  chatError,        \* useState<string|null>(null): an error message is set
  chatFetches,      \* fetchProjectDetails() calls suspended: [stage, user, from], with
                    \* the user of the call's closure and the rows the messages
                    \* table had when the messages query was issued
  chatSubscribed,   \* the realtime effect has subscribed to project-chat-<id>
  messages,         \* useState<Message[]>([]): rows [id, sender_user]
  srvMsgs,          \* the messages table of the project: number of rows, ids 1..srvMsgs
  chatEvents,       \* INSERT events the channel has yet to deliver: message ids
  lookups,          \* INSERT handlers suspended in the sender lookup: message ids
  chatSends,        \* handleSendMessage() calls suspended in sendMessage(): "insert"
                    \* or, the row inserted, "notify" (getProjectById)
  lastChat,         \* history: the last chat step and the list it started from
  chatViewer,       \* useAuth().user as the page sees it: NULL or an identity
  chatMounted       \* the page is mounted

chatVars == <<chatProject, chatLoading, chatError, chatFetches, chatSubscribed,
              messages, srvMsgs, chatEvents, lookups, chatSends, lastChat, chatViewer,
              chatMounted>>

VARIABLES
  toasts,           \* NotificationProvider: useState<NotificationMessage[]>([]), rows
                    \* [id, duration], with the time `age` the Toast's timer has run
  toastIds,         \* ids given out so far (ids are unique strings in the source)
  lastToast         \* history: the last toast step and the list it started from

toastVars == <<toasts, toastIds, lastToast>>

vars == <<authVars, ncVars, chatVars, toastVars>>

\* history record of a store step: the operation, its input, the address given
\* to signUp, what the step returned or was answered, the identity it is
\* about, and whether a handler delivered later had finished before this one
\* (profile fetches only)
LastAO(op, arg, email, out, who) ==
  [op |-> op, arg |-> arg, email |-> email, out |-> out, who |-> who,
   late |-> FALSE]

LastA(op, arg, email) == LastAO(op, arg, email, "", NULL)

RemoveAt(s, i) == SubSeq(s, 1, i - 1) \o SubSeq(s, i + 1, Len(s))

\* ------------------------------------------------------- fetchUserProfile
\* Variant: a failed query leaves the cached profile in place.
fetchUserProfile_KeepsCached(u, o) ==
  IF u = NULL THEN NoProfile
  ELSE IF o = "ok" THEN [id |-> u, name |-> dbUsers[u]]
  ELSE user

\* Result of fetchUserProfile(authUser) when the query resolves with outcome o:
\* the row on success, null on an error result or an exception.
fetchUserProfile(u, o) ==
  IF u = NULL THEN NoProfile
  ELSE IF o = "ok" THEN [id |-> u, name |-> dbUsers[u]]
  ELSE NoProfile

QueryOutcomes == {"ok", "error", "throw"}

\* ------------------------------------------------------------------ Init
AuthInit ==
  /\ session = NULL
  /\ user = NoProfile
  /\ loading = TRUE
  /\ isSigningOutRef = FALSE
  /\ setDataPc = "getSession"
  /\ setDataUser = NULL
  /\ handlers = << >>
  /\ signOutCalls = 0
  /\ signInCalls = 0
  /\ signUpCalls = 0
  /\ updateCalls = << >>
  /\ dbUsers = [u \in Users |-> "n0"]
  /\ soWindow = FALSE
  /\ soOpen = FALSE
  /\ lastAuth = [op |-> "init", arg |-> "", email |-> EmptyStr, out |-> "", who |-> NULL,
                 late |-> FALSE]

\* ----------------------------------------------------------------- setData
\* supabase.auth.getSession() wins the race and resolves with session s.
SetDataSession(s) ==
  /\ setDataPc = "getSession"
  /\ session' = s
  /\ IF s # NULL
       THEN /\ setDataPc' = "profile"
            /\ setDataUser' = s
            /\ UNCHANGED <<user, loading>>
       ELSE /\ setDataPc' = "done"
            /\ setDataUser' = NULL
            /\ user' = NoProfile
            /\ loading' = FALSE
  /\ lastAuth' = LastA("setDataSession", s, EmptyStr)
  /\ UNCHANGED <<isSigningOutRef, handlers, signOutCalls, signInCalls, signUpCalls,
                 updateCalls, dbUsers, domains, soWindow, soOpen>>

\* The 10 s timeout wins the race, or getSession() rejects: the catch block.
SetDataFail(why) ==
  /\ setDataPc = "getSession"
  /\ user' = NoProfile
  /\ session' = NULL
  /\ loading' = FALSE
  /\ setDataPc' = "done"
  /\ lastAuth' = LastA("setDataFail", why, EmptyStr)
  /\ UNCHANGED <<isSigningOutRef, setDataUser, handlers, signOutCalls, signInCalls,
                 signUpCalls, updateCalls, dbUsers, domains, soWindow, soOpen>>

\* fetchUserProfile(currentSession.user) of setData resolves.
SetDataProfile(o) ==
  /\ setDataPc = "profile"
  /\ user' = fetchUserProfile(setDataUser, o)
  /\ loading' = FALSE
  /\ setDataPc' = "done"
  /\ setDataUser' = NULL
  /\ lastAuth' = LastA("setDataProfile", o, EmptyStr)
  /\ UNCHANGED <<session, isSigningOutRef, handlers, signOutCalls, signInCalls,
                 signUpCalls, updateCalls, dbUsers, domains, soWindow, soOpen>>

\* ------------------------------------------------------ onAuthStateChange
\* The sessions an event of a kind is delivered with: the handler takes any
\* pairing of _event and newSession, and which pairings the auth library
\* produces is not part of this code.
EventSessions(kind) == SessionValues

\* Variant: the guard that discards events during a sign-out is missing.
Ignored_NoGuard(kind, newSession) == FALSE

\* The handler ignores the event (lines 121-126).
Ignored(kind, newSession) ==
  isSigningOutRef /\ kind = "SIGNED_IN" /\ newSession # NULL

\* `loading` in the handler is the value captured when the effect ran at mount,
\* which is the initial true: the effect's only dependency is fetchUserProfile.
loadingAtMount == TRUE

\* Variant: the handler never clears the loading flag.
ClearsLoading_Never(kind) == FALSE

ClearsLoading(kind) ==
  loadingAtMount /\ kind \in {"INITIAL_SESSION", "SIGNED_IN", "SIGNED_OUT"}

\* Variant: the handler clears the loading flag for every kind of event.
HandlerLoading_Always(kind) == FALSE

\* The loading flag when the handler of an event of this kind has finished
\* (lines 152-155).
HandlerLoading(kind) == IF ClearsLoading(kind) THEN FALSE ELSE loading

\* The subscription delivers (kind, newSession): the handler up to its first
\* await, with at most cap handlers suspended at a time.
\* Variant: an event without a session leaves the stored session in place.
HandlerSession_KeepsOnNull(newSession) ==
  IF newSession = NULL THEN session ELSE newSession

\* The session the handler stores before anything else: setSession(newSession).
HandlerSession(newSession) == newSession

OnAuthStateChange(kind, newSession, cap, track) ==
  /\ newSession \in EventSessions(kind)
  /\ lastAuth' = LastAO("event", kind, EmptyStr,
                        IF Ignored(kind, newSession) THEN "ignored" ELSE "processed",
                        newSession)
  /\ soWindow' = IF kind = "SIGNED_OUT" THEN FALSE ELSE soWindow
  /\ soOpen' = IF kind = "SIGNED_OUT" THEN FALSE ELSE soOpen
  /\ IF Ignored(kind, newSession)
       THEN UNCHANGED <<session, user, loading, isSigningOutRef, handlers>>
       ELSE /\ isSigningOutRef' =
                 IF isSigningOutRef /\ kind = "SIGNED_OUT" THEN FALSE ELSE isSigningOutRef
            /\ IF newSession # NULL
                 THEN /\ Len(handlers) < cap
                      /\ session' = HandlerSession(newSession)
                      /\ handlers' = Append(handlers,
                                          [kind |-> kind, u |-> newSession,
                                           \* history: delivered while a
                                           \* signInWithPassword was suspended
                                           inSignIn |-> /\ track = "flow"
                                                        /\ kind = "SIGNED_IN"
                                                        /\ signInCalls > 0,
                                           \* history: a signOut() was called
                                           \* ("called") and has returned
                                           \* ("returned") since the delivery
                                           so |-> IF track = "flow" THEN "none" ELSE "off",
                                           \* history: the fetch of a handler
                                           \* delivered later has settled
                                           overtaken |-> FALSE,
                                           \* which of the histories above
                                           \* are kept for this delivery
                                           track |-> track])
                      /\ UNCHANGED <<user, loading>>
                 ELSE /\ session' = HandlerSession(newSession)
                      /\ user' = NoProfile
                      /\ loading' = HandlerLoading(kind)
                      /\ UNCHANGED handlers
  /\ UNCHANGED <<setDataPc, setDataUser, signOutCalls, signInCalls, signUpCalls,
                 updateCalls, dbUsers, domains>>

AuthEvent(kind, newSession) == OnAuthStateChange(kind, newSession, MaxHandlers, "off")

\* The same delivery, with the sign-in and sign-out histories of the suspended
\* handler kept.
TrackedEvent(kind, newSession) == OnAuthStateChange(kind, newSession, MaxHandlers, "flow")

\* The handlers delivered before the i-th are marked as overtaken.
Overtake(hs, i) ==
  [k \in 1..Len(hs) |-> IF k < i /\ hs[k].track = "overlap" THEN [hs[k] EXCEPT !.overtaken = TRUE] ELSE hs[k]]

\* Variant: a handler whose fetch settles after that of a later event keeps
\* the profile the later event wrote.
HandlerUser_NewestWins(i, o) ==
  IF handlers[i].overtaken THEN user ELSE fetchUserProfile(handlers[i].u, o)

\* The profile the i-th suspended handler writes when its fetch settles with
\* outcome o: setUser(profile), or setUser(null) in the catch block.
HandlerUser(i, o) == fetchUserProfile(handlers[i].u, o)

\* fetchUserProfile(newSession.user) of the i-th suspended handler resolves.
HandlerProfile(i, o) ==
  /\ i \in 1..Len(handlers)
  /\ user' = HandlerUser(i, o)
  /\ loading' = HandlerLoading(handlers[i].kind)
  /\ handlers' = RemoveAt(Overtake(handlers, i), i)
  /\ lastAuth' = [LastAO("handlerProfile", handlers[i].kind, EmptyStr, o, handlers[i].u)
                    EXCEPT !.late = handlers[i].overtaken]
  /\ UNCHANGED <<session, isSigningOutRef, setDataPc, setDataUser, signOutCalls,
                 signInCalls, signUpCalls, updateCalls, dbUsers, domains,
                 soWindow, soOpen>>

\* ------------------------------------------------------------------ signUp
validateUniversityEmail(email) ==
  IF Len(domains) = 0 \/ (Len(domains) = 1 /\ domains[1] = EmptyStr) THEN TRUE
  ELSE LET domain == substring(email, lastIndexOf(email, "@") + 1)
       IN  includes(domains, domain)

\* signUp(params) up to its first await; a rejected e-mail returns at once.
\* The model keeps at most one call of each of signUp, signInWithPassword and
\* updateUserProfile suspended; calls of different operations overlap freely.
SignUp(email) ==
  /\ IF ~validateUniversityEmail(email)
       THEN /\ lastAuth' = LastA("signUpRejected", "DomainNotAllowed", email)
            /\ UNCHANGED <<loading, signUpCalls>>
       ELSE /\ signUpCalls = 0
            /\ loading' = TRUE
            /\ signUpCalls' = signUpCalls + 1
            /\ lastAuth' = LastA("signUp", "", email)
  /\ UNCHANGED <<session, user, isSigningOutRef, setDataPc, setDataUser, handlers,
                 signOutCalls, signInCalls, updateCalls, dbUsers, domains,
                 soWindow, soOpen>>

\* supabase.auth.signUp() resolves: an error result, an exception, no user,
\* a user without session (confirmation pending), or an immediate session.
\* Variant: a signUp that got no session clears the stored one.
SignUpSession_ClearsOnError(o) == IF o \in Users THEN o ELSE NULL

\* The session after signUp() has returned: setSession(newSession) when the
\* auth call answered with an immediate session, untouched otherwise.
SignUpSession(o) == IF o \in Users THEN o ELSE session

SignUpDone(o) ==
  /\ signUpCalls > 0
  /\ session' = SignUpSession(o)
  /\ loading' = FALSE
  /\ signUpCalls' = signUpCalls - 1
  /\ lastAuth' = LastA("signUpDone", o, EmptyStr)
  /\ UNCHANGED <<user, isSigningOutRef, setDataPc, setDataUser, handlers,
                 signOutCalls, signInCalls, updateCalls, dbUsers, domains,
                 soWindow, soOpen>>

\* ------------------------------------------------------ signInWithPassword
SignIn ==
  /\ signInCalls = 0
  /\ loading' = TRUE
  /\ signInCalls' = signInCalls + 1
  /\ lastAuth' = LastA("signIn", "", EmptyStr)
  /\ UNCHANGED <<session, user, isSigningOutRef, setDataPc, setDataUser, handlers,
                 signOutCalls, signUpCalls, updateCalls, dbUsers, domains,
                 soWindow, soOpen>>

SignInDone(o) ==
  /\ signInCalls > 0
  /\ loading' = FALSE
  /\ signInCalls' = signInCalls - 1
  /\ lastAuth' = LastA("signInDone", o, EmptyStr)
  /\ UNCHANGED <<session, user, isSigningOutRef, setDataPc, setDataUser, handlers,
                 signOutCalls, signUpCalls, updateCalls, dbUsers, domains,
                 soWindow, soOpen>>

\* ----------------------------------------------------------------- signOut
SignOut ==
  /\ signOutCalls < MaxSignOuts
  /\ isSigningOutRef' = TRUE
  /\ loading' = TRUE
  /\ signOutCalls' = signOutCalls + 1
  /\ soWindow' = TRUE
  /\ soOpen' = TRUE
  /\ lastAuth' = LastA("signOut", "", EmptyStr)
  /\ handlers' = [k \in 1..Len(handlers) |->
                    [handlers[k] EXCEPT !.so = IF @ = "none" THEN "called" ELSE @]]
  /\ UNCHANGED <<session, user, setDataPc, setDataUser, signInCalls,
                 signUpCalls, updateCalls, dbUsers, domains>>

\* Variant: no catch block, an exception leaves the state as it was.
SignOutClear_NoCatch(o) ==
  IF o = "throw"
    THEN [user |-> user, session |-> session, ref |-> FALSE, loading |-> FALSE]
    ELSE [user |-> NoProfile, session |-> NULL, ref |-> FALSE, loading |-> FALSE]

\* State written by signOut() once supabase.auth.signOut() has settled with
\* outcome o: the try block after the await, or the catch block, then finally.
SignOutClear(o) ==
  [user |-> NoProfile, session |-> NULL, ref |-> FALSE, loading |-> FALSE]

SignOutDone(o) ==
  /\ signOutCalls > 0
  /\ LET w == SignOutClear(o)
     IN  /\ user' = w.user
         /\ session' = w.session
         /\ isSigningOutRef' = w.ref
         /\ loading' = w.loading
  /\ signOutCalls' = signOutCalls - 1
  /\ soOpen' = FALSE
  /\ lastAuth' = LastA("signOutDone", o, EmptyStr)
  /\ handlers' = [k \in 1..Len(handlers) |->
                    [handlers[k] EXCEPT !.so = IF @ = "called" THEN "returned" ELSE @]]
  /\ UNCHANGED <<setDataPc, setDataUser, signInCalls, signUpCalls,
                 updateCalls, dbUsers, domains, soWindow>>

\* ------------------------------------------------------- updateUserProfile
UpdateUserProfile(name) ==
  /\ IF user = NoProfile
       THEN /\ lastAuth' = LastA("updateRejected", "User not logged in", EmptyStr)
            /\ UNCHANGED <<loading, updateCalls>>
       ELSE /\ Len(updateCalls) = 0
            /\ loading' = TRUE
            /\ updateCalls' = Append(updateCalls, [id |-> user.id, name |-> name])
            /\ lastAuth' = LastA("update", name, EmptyStr)
  /\ UNCHANGED <<session, user, isSigningOutRef, setDataPc, setDataUser, handlers,
                 signOutCalls, signInCalls, signUpCalls, dbUsers, domains,
                 soWindow, soOpen>>

\* Variant: a failed update clears the cached profile.
UpdatedUser_ClearsOnFailure(c, o) ==
  IF o = "ok" THEN [id |-> c.id, name |-> c.name] ELSE NoProfile

\* The cached profile after the update query of call c has settled with
\* outcome o (lines 320-329): the returned row, or the profile as it is.
UpdatedUser(c, o) ==
  IF o = "ok" THEN [id |-> c.id, name |-> c.name] ELSE user

\* The `error` of the value updateUserProfile returns (lines 326, 329).
UpdateError(o) ==
  CASE o = "ok" -> "null"
    [] o = "error" -> "updateError"
    [] OTHER -> "An unexpected error occurred while updating profile"

\* The update query of the i-th suspended call resolves.
UpdateDone(i, o) ==
  /\ i \in 1..Len(updateCalls)
  /\ LET c == updateCalls[i]
     IN  /\ dbUsers' = IF o = "ok" THEN [dbUsers EXCEPT ![c.id] = c.name] ELSE dbUsers
         /\ user' = UpdatedUser(c, o)
         /\ lastAuth' = LastAO("updateDone", o, EmptyStr, UpdateError(o), c.id)
  /\ loading' = FALSE
  /\ updateCalls' = RemoveAt(updateCalls, i)
  /\ UNCHANGED <<session, isSigningOutRef, setDataPc, setDataUser, handlers,
                 signOutCalls, signInCalls, signUpCalls, domains, soWindow, soOpen>>

\* a signUp, signInWithPassword, signOut or updateUserProfile call is suspended
CallPending ==
  signOutCalls + signInCalls + signUpCalls + Len(updateCalls) > 0

\* ====================================================== notification center
Ids == {1, 2, 3}          \* ids of the rows of the notifications table
NoCount == 0              \* `count` of a response that is null or 0

\* the pages a query for NOTIFICATIONS_PER_PAGE rows can return: at most that
\* many row ids
RECURSIVE SeqsUpTo(_, _)
SeqsUpTo(S, n) ==
  IF n = 0 THEN {<< >>}
  ELSE LET T == SeqsUpTo(S, n - 1)
       IN  T \cup {Append(t, x) : t \in {u \in T : Len(u) = n - 1}, x \in S}

Pages == SeqsUpTo(Ids, NOTIFICATIONS_PER_PAGE)

\* the same order with rows that may repeat within the page
RepeatingPages == {p \in Pages : \A j, k \in 1..Len(p) : j < k => p[j] >= p[k]}

\* the pages of the backend's query, which orders the rows by created_at
\* descending: with ids numbered in creation order, strictly descending ids
OrderedPages == {p \in Pages : \A j, k \in 1..Len(p) : j < k => p[j] > p[k]}

\* the total `count` of a response: absent, or the number of rows of the table
Counts == {NoCount, Cardinality(Ids)}

\* the rows of a page as the server holds them when it answers
Rows(page) == [k \in 1..Len(page) |-> [id |-> page[k], is_read |-> srvRead[page[k]]]]

IdsOf(list) == {list[k].id : k \in 1..Len(list)}

RECURSIVE Filter(_, _)
\* newNotifications.filter(n => !existingIds.has(n.id))
Filter(list, existing) ==
  IF list = << >> THEN << >>
  ELSE LET rest == Filter(Tail(list), existing)
       IN  IF Head(list).id \in existing THEN rest ELSE <<Head(list)>> \o rest

\* the server-side number of unread notifications of the user
ServerUnread == Cardinality({i \in Ids : ~srvRead[i]})

Max(a, b) == IF a >= b THEN a ELSE b

\* history record of a step: the operation, its outcome, the notification id
\* or page number it is about, the page and the count the backend returned or
\* the counter the call started from, and the list the call started from
LastN(op, arg, id, page, count, snap) ==
  [op |-> op, arg |-> arg, id |-> id, page |-> page, count |-> count, snap |-> snap]

NcInit ==
  /\ ncUser = NULL
  /\ notifications = << >>
  /\ unreadCount = 0
  /\ isLoading = FALSE
  /\ currentPage = 1
  /\ hasMoreNotifications = TRUE
  /\ isDropdownOpen = FALSE
  /\ fetches = << >>
  /\ marks = << >>
  /\ markAlls = << >>
  /\ refreshes = 0
  /\ ncCalls = 0
  /\ srvRead = [i \in Ids |-> FALSE]
  /\ lastOkPage = 0
  /\ lastNc = LastN("init", "", 0, << >>, 0, << >>)

\* ------------------------------------------------------ fetchNotifications
\* A fetchNotifications(pageToFetch) call that passed the user check, suspended
\* in getAppNotificationsForUser; it keeps the `notifications` of its closure,
\* which line 85 reads for a page n > 1 only.
NewFetch(pageToFetch) ==
  [page |-> pageToFetch, stage |-> "page",
   snap |-> IF pageToFetch = 1 THEN << >> ELSE notifications]

\* fetchNotifications(pageToFetch) called with the current closure, up to its
\* first await.
CallFetch(pageToFetch) ==
  IF ncUser = NULL
    THEN /\ notifications' = << >>
         /\ hasMoreNotifications' = FALSE
         /\ currentPage' = IF pageToFetch = 1 THEN 1 ELSE currentPage
         /\ UNCHANGED <<isLoading, fetches>>
    ELSE /\ isLoading' = TRUE
         /\ fetches' = Append(fetches, NewFetch(pageToFetch))
         /\ UNCHANGED <<notifications, hasMoreNotifications, currentPage>>

\* lines 77-81: the list after a page n > 1 was merged into prev
MergePage(prev, newNotifications) ==
  prev \o Filter(newNotifications, IdsOf(prev))

\* line 85
TotalFetched(f, newNotifications) ==
  IF f.page = 1 THEN Len(newNotifications)
  ELSE Len(f.snap) + Len(Filter(newNotifications, IdsOf(f.snap)))

\* Variant: hasMore decided by the page length alone.
HasMoreAfter_LengthOnly(len, limit, count, totalFetched) == len = limit

\* line 86
HasMoreAfter(len, limit, count, totalFetched) ==
  len = limit /\ (IF count # NoCount THEN totalFetched < count ELSE TRUE)

\* Variant: isLoading is cleared at the end of the try block, which an
\* exception skips.
IsLoadingAtEnd_NoFinally(o) == IF o = "throw" THEN isLoading ELSE FALSE

\* isLoading when fetchNotifications ends after an await that settled with
\* outcome o: the finally block (lines 95-97)
IsLoadingAtEnd(o) == FALSE

\* getAppNotificationsForUser of the i-th suspended call resolves: with the
\* rows of `page` and the total `count`, with an error result, or it throws.
FetchPage(i, o, page, count) ==
  /\ i \in 1..Len(fetches)
  /\ fetches[i].stage = "page"
  /\ LET f == fetches[i]
         newNotifications == Rows(page)
     IN  IF o = "ok"
           THEN /\ notifications' = IF f.page = 1 THEN newNotifications
                                    ELSE MergePage(notifications, newNotifications)
                /\ currentPage' = f.page
                /\ hasMoreNotifications' =
                     HasMoreAfter(Len(newNotifications), NOTIFICATIONS_PER_PAGE, count,
                                  TotalFetched(f, newNotifications))
                /\ fetches' = [fetches EXCEPT ![i] =
                                 [page |-> f.page, stage |-> "count", snap |-> << >>]]
                /\ lastOkPage' = f.page
                /\ lastNc' = LastN("fetchPage", o, f.page, page, count, f.snap)
                /\ UNCHANGED isLoading
           ELSE /\ page = << >> /\ count = NoCount
                /\ notifications' = IF f.page = 1 THEN << >> ELSE notifications
                /\ hasMoreNotifications' = FALSE
                /\ isLoading' = IsLoadingAtEnd(o)
                /\ fetches' = RemoveAt(fetches, i)
                /\ lastNc' = LastN("fetchPage", o, f.page, page, count, f.snap)
                /\ UNCHANGED <<currentPage, lastOkPage>>
  /\ UNCHANGED <<ncUser, unreadCount, isDropdownOpen, marks, markAlls, refreshes, ncCalls, srvRead>>

\* Variant: the counter is taken from the unread rows of the list.
RefreshedCount_FromList(o) ==
  Cardinality({k \in 1..Len(notifications) : ~notifications[k].is_read})

\* refreshUnreadCount (lines 45-54) for a signed-in user: the counter after
\* getUnreadNotificationsCount has resolved with outcome o
RefreshedCount(o) == IF o = "ok" THEN ServerUnread ELSE unreadCount

\* The count query of refreshUnreadCount awaited by the i-th call resolves;
\* the call ends in its finally block.
FetchCount(i, o) ==
  /\ i \in 1..Len(fetches)
  /\ fetches[i].stage = "count"
  /\ unreadCount' = RefreshedCount(o)
  /\ isLoading' = IsLoadingAtEnd("ok")
  /\ fetches' = RemoveAt(fetches, i)
  /\ lastNc' = LastN("fetchCount", o, 0, << >>, 0, << >>)
  /\ UNCHANGED <<ncUser, notifications, currentPage, hasMoreNotifications,
                 isDropdownOpen, marks, markAlls, refreshes, ncCalls, srvRead, lastOkPage>>

\* --------------------------------------------- refreshUnreadCount (direct)
\* A consumer of the context calls refreshUnreadCount() (lines 40-55), up to
\* its await: without a user the counter is set to 0 and the call returns.
RefreshUnreadCount ==
  /\ ncCalls < MaxCalls
  /\ ncCalls' = ncCalls + 1
  /\ IF ncUser = NULL
       THEN unreadCount' = 0 /\ UNCHANGED refreshes
       ELSE refreshes' = refreshes + 1 /\ UNCHANGED unreadCount
  /\ lastNc' = LastN("refreshUnreadCount", IF ncUser = NULL THEN "noUser" ELSE "query",
                     0, << >>, unreadCount, << >>)
  /\ UNCHANGED <<ncUser, notifications, isLoading, currentPage, hasMoreNotifications,
                 isDropdownOpen, fetches, marks, markAlls, srvRead, lastOkPage>>

\* getUnreadNotificationsCount of such a call resolves with outcome o.
RefreshDone(o) ==
  /\ refreshes > 0
  /\ refreshes' = refreshes - 1
  /\ unreadCount' = RefreshedCount(o)
  /\ lastNc' = LastN("refreshDone", o, 0, << >>, unreadCount, << >>)
  /\ UNCHANGED <<ncUser, notifications, isLoading, currentPage, hasMoreNotifications,
                 isDropdownOpen, fetches, marks, markAlls, ncCalls, srvRead, lastOkPage>>

\* --------------------------------------------------- loadMoreNotifications
\* Variant: the guard does not look at isLoading.
LoadMoreBlocked_IgnoresLoading == ~hasMoreNotifications \/ ncUser = NULL

\* line 102
LoadMoreBlocked == isLoading \/ ~hasMoreNotifications \/ ncUser = NULL

LoadMore ==
  /\ ncCalls < MaxCalls
  /\ ncCalls' = ncCalls + 1
  /\ IF LoadMoreBlocked
       THEN UNCHANGED <<notifications, hasMoreNotifications, currentPage, isLoading, fetches>>
       ELSE CallFetch(currentPage + 1)
  /\ lastNc' = LastN("loadMore", IF LoadMoreBlocked THEN "noop" ELSE "fetch",
                     currentPage + 1, << >>, 0, << >>)
  /\ UNCHANGED <<ncUser, unreadCount, isDropdownOpen, marks, markAlls, refreshes, srvRead, lastOkPage>>

\* ------------------------------------------------------ the effect on user
\* useAuth().user changes to u (a sign-in, a sign-out, or a new profile object
\* of the same identity) and the effect of lines 107-119 runs.  The navbar
\* renders the bell only for a user (Navbar.tsx 59-61): a sign-out unmounts it,
\* and it mounts again with its dropdown closed.
UserChange(u) ==
  /\ ncCalls < MaxCalls
  /\ ncCalls' = ncCalls + 1
  /\ ~(u = NULL /\ ncUser = NULL)
  /\ ncUser' = u
  /\ IF u # NULL
       THEN /\ isLoading' = TRUE
            /\ fetches' = Append(fetches, NewFetch(1))
            /\ UNCHANGED <<notifications, unreadCount, hasMoreNotifications, currentPage>>
       ELSE /\ notifications' = << >>
            /\ unreadCount' = 0
            /\ isLoading' = FALSE
            /\ hasMoreNotifications' = TRUE
            /\ currentPage' = 1
            /\ UNCHANGED fetches
  /\ isDropdownOpen' = IF u = NULL THEN FALSE ELSE isDropdownOpen
  /\ lastNc' = LastN("userChange", u, 0, << >>, 0, << >>)
  /\ UNCHANGED <<marks, markAlls, refreshes, srvRead, lastOkPage>>

\* ------------------------------------------- NotificationBell.toggleDropdown
\* The bell is on the screen only while a user is signed in.
ToggleDropdown ==
  /\ ncUser # NULL
  /\ ncCalls < MaxCalls
  /\ ncCalls' = ncCalls + 1
  /\ isDropdownOpen' = ~isDropdownOpen
  /\ IF ~isDropdownOpen /\ Len(notifications) = 0 /\ ~isLoading
       THEN CallFetch(1)
       ELSE UNCHANGED <<notifications, hasMoreNotifications, currentPage, isLoading, fetches>>
  /\ lastNc' = LastN("toggle", "", 0, << >>, 0, << >>)
  /\ UNCHANGED <<ncUser, unreadCount, marks, markAlls, refreshes, srvRead, lastOkPage>>

\* --------------------------------------------------------- handleMarkAsRead
\* lines 125-127
MarkRead(list, id) ==
  [k \in 1..Len(list) |-> IF list[k].id = id THEN [list[k] EXCEPT !.is_read = TRUE]
                          ELSE list[k]]

\* handleMarkAsRead(id) up to its await; the call keeps originalNotifications
\* and previouslyUnread, and (history) the list and the counter it started from.
MarkAsRead(id) ==
  /\ ncCalls < MaxCalls
  /\ ncCalls' = ncCalls + 1
  /\ id \in IdsOf(notifications)
  /\ LET previouslyUnread ==
           \E k \in 1..Len(notifications) :
              notifications[k].id = id /\ ~notifications[k].is_read
     IN  /\ notifications' = MarkRead(notifications, id)
         /\ unreadCount' = IF previouslyUnread THEN Max(0, unreadCount - 1) ELSE unreadCount
         /\ marks' = Append(marks, [id |-> id, orig |-> notifications,
                                    previouslyUnread |-> previouslyUnread,
                                    hList |-> notifications,
                                    hCount |-> unreadCount])
  /\ lastNc' = LastN("markAsRead", "", id, << >>, unreadCount, notifications)
  /\ UNCHANGED <<ncUser, isLoading, currentPage, hasMoreNotifications, isDropdownOpen,
                 fetches, markAlls, refreshes, srvRead, lastOkPage>>

\* markNotificationAsRead of the i-th suspended call resolves.  `arg` of the
\* history record tells whether the call is the one started by the step before.
MarkAsReadDone(i, o) ==
  /\ i \in 1..Len(marks)
  /\ LET m == marks[i]
     IN  /\ IF o = "ok"
              THEN /\ srvRead' = [srvRead EXCEPT ![m.id] = TRUE]
                   /\ UNCHANGED <<notifications, unreadCount>>
              ELSE /\ notifications' = m.orig
                   /\ unreadCount' = IF m.previouslyUnread THEN unreadCount + 1
                                     ELSE unreadCount
                   /\ UNCHANGED srvRead
         /\ lastNc' = LastN(IF o = "ok" THEN "markAsReadOk" ELSE "markAsReadFail",
                            IF lastNc.op = "markAsRead" /\ i = Len(marks)
                              THEN "direct" ELSE "interleaved",
                            m.id, << >>, m.hCount, m.hList)
  /\ marks' = RemoveAt(marks, i)
  /\ UNCHANGED <<ncUser, isLoading, currentPage, hasMoreNotifications, isDropdownOpen,
                 fetches, markAlls, refreshes, ncCalls, lastOkPage>>

\* ------------------------------------------------------ handleMarkAllAsRead
\* Variant: the rollback restores the list but not the counter.
MarkAllRollback_ListOnly(c) == [notifications |-> c.orig, unreadCount |-> unreadCount]

\* lines 162-163 and 168-169
MarkAllRollback(c) == [notifications |-> c.orig, unreadCount |-> c.countBefore]

\* line 154
AllRead(list) == [k \in 1..Len(list) |-> [list[k] EXCEPT !.is_read = TRUE]]

MarkAllAsRead ==
  /\ ncCalls < MaxCalls
  /\ ncCalls' = ncCalls + 1
  /\ markAlls' = Append(markAlls, [orig |-> notifications, countBefore |-> unreadCount,
                                   hList |-> notifications, hCount |-> unreadCount])
  /\ notifications' = AllRead(notifications)
  /\ unreadCount' = 0
  /\ lastNc' = LastN("markAll", "", 0, << >>, unreadCount, notifications)
  /\ UNCHANGED <<ncUser, isLoading, currentPage, hasMoreNotifications, isDropdownOpen,
                 fetches, marks, refreshes, srvRead, lastOkPage>>

\* markAllUserNotificationsAsRead of the i-th suspended call resolves.
MarkAllDone(i, o) ==
  /\ i \in 1..Len(markAlls)
  /\ LET c == markAlls[i]
     IN  IF o = "ok"
           THEN /\ srvRead' = [n \in Ids |-> TRUE]
                /\ UNCHANGED <<notifications, unreadCount>>
           ELSE /\ notifications' = MarkAllRollback(c).notifications
                /\ unreadCount' = MarkAllRollback(c).unreadCount
                /\ UNCHANGED srvRead
  /\ lastNc' = LastN(IF o = "ok" THEN "markAllOk" ELSE "markAllFail", o, 0, << >>,
                     markAlls[i].hCount, markAlls[i].hList)
  /\ markAlls' = RemoveAt(markAlls, i)
  /\ UNCHANGED <<ncUser, isLoading, currentPage, hasMoreNotifications, isDropdownOpen,
                 fetches, marks, refreshes, ncCalls, lastOkPage>>

\* ================================================================== toasts
\* NotificationProvider (services/apiService.ts 523-541) and the Toast
\* component.  Time advances in ticks; a timer that is due runs before the
\* next tick.
Durations == 1..MaxDuration

LastT(op, id, age, duration) ==
  [op |-> op, id |-> id, age |-> age, duration |-> duration, pre |-> toasts]

ToastInit ==
  /\ toasts = << >>
  /\ toastIds = 0
  /\ lastToast = [op |-> "init", id |-> 0, age |-> 0, duration |-> 0, pre |-> << >>]

\* removeNotification(id): prev.filter(n => n.id !== id)
Without(list, id) ==
  LET keep == {k \in 1..Len(list) : list[k].id # id}
      F[k \in 0..Len(list)] ==
        IF k = 0 THEN << >>
        ELSE IF k \in keep THEN Append(F[k - 1], list[k]) ELSE F[k - 1]
  IN  F[Len(list)]

\* addNotification(message, type, duration): the toast is appended and its
\* Toast component mounts and starts its timer.
AddNotification(d) ==
  /\ toastIds < MaxToasts
  /\ toastIds' = toastIds + 1
  /\ toasts' = Append(toasts, [id |-> toastIds + 1, duration |-> d, age |-> 0])
  /\ lastToast' = LastT("add", toastIds + 1, 0, d)

\* Variant: the timer of a toast runs out one tick early.
TimerDue_Early(t) == t.age >= t.duration - 1

\* setTimeout(..., duration) of the toast t has run out
TimerDue(t) == t.age >= t.duration

\* One tick of the clock: every mounted Toast's timer runs on.
Tick ==
  /\ toasts # << >>
  /\ \A k \in 1..Len(toasts) : ~TimerDue(toasts[k])
  /\ toasts' = [k \in 1..Len(toasts) |-> [toasts[k] EXCEPT !.age = @ + 1]]
  /\ lastToast' = LastT("tick", 0, 0, 0)
  /\ UNCHANGED toastIds

\* The timer of the i-th toast fires: onDismiss(id).
TimerFires(i) ==
  /\ i \in 1..Len(toasts)
  /\ TimerDue(toasts[i])
  /\ toasts' = Without(toasts, toasts[i].id)
  /\ lastToast' = LastT("timer", toasts[i].id, toasts[i].age, toasts[i].duration)
  /\ UNCHANGED toastIds

\* The dismiss button of the i-th toast: onDismiss(id); the unmount clears
\* the toast's timer.
Dismiss(i) ==
  /\ i \in 1..Len(toasts)
  /\ toasts' = Without(toasts, toasts[i].id)
  /\ lastToast' = LastT("dismiss", toasts[i].id, toasts[i].age, toasts[i].duration)
  /\ UNCHANGED toastIds

ToastNext ==
  /\ \/ \E d \in Durations : AddNotification(d)
     \/ Tick
     \/ \E i \in 1..MaxToasts : TimerFires(i)
     \/ \E i \in 1..MaxToasts : Dismiss(i)
  /\ UNCHANGED <<authVars, ncVars, chatVars>>

\* ============================================================ project chat
\* pages/ProjectDetailsViewerPage.tsx, for a message without attachment.
LastC(op, id, out) == [op |-> op, id |-> id, out |-> out, pre |-> messages]

\* fetchProjectDetails() of the render whose user is v, up to its first await
\* (lines 38-42); `from` is set when the messages query is issued.
StartFetch(v) == [stage |-> "project", user |-> v, from |-> 0]

\* canChat of a render with the given project and user (lines 31-34).
\* isOwner compares user?.id with project?.posted_by_user_id: with no user and
\* no project both sides are undefined and equal; a loaded project has an
\* owner id, which differs from the undefined id of an absent user, and no
\* application names that id.
CanChatOf(project, viewer) ==
  IF project = "none" THEN viewer = NULL
  ELSE viewer # NULL /\ project = "chat"

\* canChat of the current render
canChat == CanChatOf(chatProject, chatViewer)

\* The page as mounted for the viewer v, who is signed out (NULL) or signed
\* in: isLoading starts true, and the effects of the mount have run: the one
\* of lines 61-63 has called fetchProjectDetails, the realtime effect
\* (lines 65-99) has subscribed when canChat is true of the first render.
ChatInitAs(v) ==
  /\ chatViewer = v
  /\ chatMounted = TRUE
  /\ chatProject = "none"
  /\ chatLoading = TRUE
  /\ chatError = FALSE
  /\ chatFetches = << StartFetch(v) >>
  /\ chatSubscribed = CanChatOf("none", v)
  /\ messages = << >>
  /\ srvMsgs = 0
  /\ chatEvents = << >>
  /\ lookups = << >>
  /\ chatSends = << >>
  /\ lastChat = [op |-> "init", id |-> 0, out |-> "", pre |-> << >>]

\* The page mounted by a signed-in user.
ChatInit == \E v \in AuthUsers : ChatInitAs(v)

\* A state setter of the page: it has no effect once the page has unmounted.
WhileMounted(new, old) == IF chatMounted THEN new ELSE old

\* addNotification(message, NotificationType.ERROR): the duration is left at
\* its default, the longest time-to-live of the model.
DefaultDuration == MaxDuration

ErrorToast == AddNotification(DefaultDuration)

\* The auth context hands the page a new user object (v an identity) or null:
\* fetchProjectDetails is rebuilt (dependency `user`, line 59) and the effect
\* of lines 61-63 calls it again; the realtime effect (lines 65-99) of the
\* same render leaves the channel subscribed exactly when canChat is true of
\* the new user.  null after null renders nothing anew.
ViewerChange(v) ==
  /\ chatMounted
  /\ ~(v = NULL /\ chatViewer = NULL)
  /\ Len(chatFetches) < MaxFetches
  /\ chatViewer' = v
  /\ chatLoading' = TRUE
  /\ chatError' = FALSE
  /\ chatFetches' = Append(chatFetches, StartFetch(v))
  /\ chatSubscribed' = CanChatOf(chatProject, v)
  /\ chatEvents' = IF CanChatOf(chatProject, v) THEN chatEvents ELSE << >>
  /\ lastChat' = LastC("viewerChange", 0, v)
  /\ UNCHANGED <<chatMounted, chatProject, messages, srvMsgs, lookups, chatSends,
                 toastVars>>

\* the rows 1..n as the messages query returns them, joined with their sender;
\* `pushed` is history: the entry was appended by the INSERT handler
Hydrated(n) == [k \in 1..n |-> [id |-> k, sender_user |-> TRUE, pushed |-> FALSE]]

\* What getProjectById answers: a project, an error result, a rejection, or
\* no error and no data.
ProjectOutcomes == QueryOutcomes \cup {"missing"}

\* getProjectById resolves in the i-th fetchProjectDetails (lines 42-57); can:
\* the identity of the model is the owner or an accepted contributor of the
\* project returned.  The messages query is issued when the user of the call
\* is that identity (line 48); every other path ends in the finally block, the
\* failures through the catch block of lines 53-55.
ProjectLoaded(i, o, can) ==
  /\ i \in 1..Len(chatFetches)
  /\ chatFetches[i].stage = "project"
  /\ LET f == chatFetches[i]
         query == o = "ok" /\ f.user # NULL /\ can
     IN  /\ chatProject' =
              IF o = "ok" THEN WhileMounted(IF can THEN "chat" ELSE "nochat", chatProject)
              ELSE chatProject
         /\ chatFetches' =
              IF query
                THEN [chatFetches EXCEPT ![i] = [stage |-> "messages", user |-> f.user,
                                                 from |-> srvMsgs]]
                ELSE RemoveAt(chatFetches, i)
         /\ chatLoading' = IF query THEN chatLoading ELSE WhileMounted(FALSE, chatLoading)
         /\ chatError' = IF o = "ok" THEN chatError ELSE WhileMounted(TRUE, chatError)
         /\ IF o = "ok" THEN UNCHANGED toastVars ELSE ErrorToast
  /\ lastChat' = LastC("projectLoaded", 0, o)
  /\ UNCHANGED <<chatViewer, chatMounted, chatSubscribed, messages, srvMsgs, chatEvents,
                 lookups, chatSends>>

\* The messages query of the i-th fetchProjectDetails settles (lines 49-57)
\* with the n rows the table had when the backend ran it; an error result is
\* logged, a rejection takes the catch block.
MessagesLoaded(i, o, n) ==
  /\ i \in 1..Len(chatFetches)
  /\ chatFetches[i].stage = "messages"
  /\ n \in chatFetches[i].from..srvMsgs
  /\ messages' = IF o = "ok" THEN WhileMounted(Hydrated(n), messages) ELSE messages
  /\ chatError' = IF o = "throw" THEN WhileMounted(TRUE, chatError) ELSE chatError
  /\ IF o = "throw" THEN ErrorToast ELSE UNCHANGED toastVars
  /\ chatLoading' = WhileMounted(FALSE, chatLoading)
  /\ chatFetches' = RemoveAt(chatFetches, i)
  /\ lastChat' = LastC("messagesLoaded", n, o)
  /\ UNCHANGED <<chatViewer, chatMounted, chatProject, chatSubscribed, srvMsgs, chatEvents,
                 lookups, chatSends>>

\* The realtime effect (lines 65-99) runs after the render of a loaded
\* project in which canChat has become true, and subscribes.
Subscribe ==
  /\ chatMounted
  /\ canChat
  /\ ~chatSubscribed
  /\ chatSubscribed' = TRUE
  /\ lastChat' = LastC("subscribe", 0, "")
  /\ UNCHANGED <<chatViewer, chatMounted, chatProject, chatLoading, chatError, chatFetches,
                 messages, srvMsgs, chatEvents, lookups, chatSends, toastVars>>

\* A row is inserted into the messages table; the backend sends the INSERT
\* to the channel when the page is subscribed.
InsertRow ==
  /\ srvMsgs' = srvMsgs + 1
  /\ chatEvents' = IF chatSubscribed THEN Append(chatEvents, srvMsgs + 1) ELSE chatEvents

\* The channel delivers its oldest INSERT: the handler runs up to the await of
\* the sender lookup (lines 73-78), a callback of its own on the event loop.
Deliver ==
  /\ chatEvents # << >>
  /\ lookups' = Append(lookups, Head(chatEvents))
  /\ chatEvents' = Tail(chatEvents)
  /\ lastChat' = LastC("deliver", Head(chatEvents), "")
  /\ UNCHANGED <<chatViewer, chatMounted, chatProject, chatLoading, chatError, chatFetches,
                 chatSubscribed, messages, srvMsgs, chatSends, toastVars>>

\* sendMessage() calls whose insert has not settled
PendingInserts == Cardinality({k \in 1..Len(chatSends) : chatSends[k] = "insert"})

\* Another participant of the project sends a message.
OtherSends ==
  /\ srvMsgs + PendingInserts < MaxMsgs
  /\ InsertRow
  /\ lastChat' = LastC("otherSends", srvMsgs + 1, "")
  /\ UNCHANGED <<chatViewer, chatMounted, chatProject, chatLoading, chatError, chatFetches,
                 chatSubscribed, messages, lookups, chatSends, toastVars>>

\* The chat form is on the screen: the page renders the spinner while
\* isLoading (line 180), the error view after a failure (line 181), "Project
\* not found." without a project (line 182), and the form under canChat
\* (line 324).
SendVisible ==
  /\ chatMounted
  /\ ~chatLoading
  /\ ~chatError
  /\ chatProject # "none"
  /\ canChat

\* handleSendMessage() with a text and no attachment, up to the await of
\* sendMessage (lines 102-119); the form implies a user, so the branch of
\* lines 104-107 is not taken.
SendMessage ==
  /\ SendVisible
  /\ srvMsgs + PendingInserts < MaxMsgs
  /\ chatSends' = Append(chatSends, "insert")
  /\ lastChat' = LastC("send", 0, "")
  /\ UNCHANGED <<chatViewer, chatMounted, chatProject, chatLoading, chatError, chatFetches,
                 chatSubscribed, messages, srvMsgs, chatEvents, lookups, toastVars>>

\* The insert of the i-th sendMessage() settles (apiService.ts 257-266): on
\* success the row is in the table and sendMessage goes on to getProjectById,
\* while the INSERT event of the row reaches the page in a callback of its own
\* (Deliver); an error result is returned to handleSendMessage, which adds a
\* toast (line 121); a rejection ends both.
SendInsert(i, o) ==
  /\ i \in 1..Len(chatSends)
  /\ chatSends[i] = "insert"
  /\ CASE o = "ok" ->
            /\ InsertRow
            /\ chatSends' = [chatSends EXCEPT ![i] = "notify"]
            /\ UNCHANGED toastVars
       [] o = "error" ->
            /\ ErrorToast
            /\ chatSends' = RemoveAt(chatSends, i)
            /\ UNCHANGED <<srvMsgs, chatEvents>>
       [] OTHER ->
            /\ chatSends' = RemoveAt(chatSends, i)
            /\ UNCHANGED <<srvMsgs, chatEvents, toastVars>>
  /\ lastChat' = LastC("sendInsert", IF o = "ok" THEN srvMsgs + 1 ELSE 0, o)
  /\ UNCHANGED <<chatViewer, chatMounted, chatProject, chatLoading, chatError, chatFetches,
                 chatSubscribed, messages, lookups>>

\* getProjectById awaited by the i-th sendMessage() after its insert settles
\* (apiService.ts 267-272) and the call returns to handleSendMessage
\* (lines 119-126): the list is left to the channel.
SendDone(i, o) ==
  /\ i \in 1..Len(chatSends)
  /\ chatSends[i] = "notify"
  /\ chatSends' = RemoveAt(chatSends, i)
  /\ lastChat' = LastC("sendDone", 0, o)
  /\ UNCHANGED <<chatViewer, chatMounted, chatProject, chatLoading, chatError, chatFetches,
                 chatSubscribed, messages, srvMsgs, chatEvents, lookups, toastVars>>

\* What the INSERT handler appends once the sender lookup has settled with
\* outcome o (lines 80-86); a rejected lookup ends the handler.
Appended(id, o) ==
  CASE o = "ok" -> << [id |-> id, sender_user |-> TRUE, pushed |-> TRUE] >>
    [] o = "error" -> << [id |-> id, sender_user |-> FALSE, pushed |-> TRUE] >>
    [] OTHER -> << >>

\* The sender lookup of the i-th suspended handler settles.
LookupDone(i, o) ==
  /\ i \in 1..Len(lookups)
  /\ messages' = WhileMounted(messages \o Appended(lookups[i], o), messages)
  /\ lookups' = RemoveAt(lookups, i)
  /\ lastChat' = LastC("lookupDone", lookups[i], o)
  /\ UNCHANGED <<chatViewer, chatMounted, chatProject, chatLoading, chatError, chatFetches,
                 chatSubscribed, srvMsgs, chatEvents, chatSends, toastVars>>

\* The cleanup of the realtime effect (lines 96-98) after the render of a
\* loaded project in which canChat has become false: the channel is removed.
Unsubscribe ==
  /\ chatMounted
  /\ chatSubscribed
  /\ ~canChat
  /\ chatSubscribed' = FALSE
  /\ chatEvents' = << >>
  /\ lastChat' = LastC("unsubscribe", 0, "")
  /\ UNCHANGED <<chatViewer, chatMounted, chatProject, chatLoading, chatError, chatFetches,
                 messages, srvMsgs, lookups, chatSends, toastVars>>

\* The page unmounts: the cleanup removes the channel; what is suspended goes
\* on, without reaching the component's state.
Unmount ==
  /\ chatMounted
  /\ chatMounted' = FALSE
  /\ chatSubscribed' = FALSE
  /\ chatEvents' = << >>
  /\ lastChat' = LastC("unmount", 0, "")
  /\ UNCHANGED <<chatViewer, chatProject, chatLoading, chatError, chatFetches, messages,
                 srvMsgs, lookups, chatSends, toastVars>>

ChatNext ==
  /\ \/ \E v \in AuthUsers \cup {NULL} : ViewerChange(v)
     \/ \E i \in 1..MaxFetches : \E o \in ProjectOutcomes : \E can \in BOOLEAN :
          ProjectLoaded(i, o, can)
     \/ \E i \in 1..MaxFetches : \E o \in QueryOutcomes : \E n \in 0..MaxMsgs :
          MessagesLoaded(i, o, n)
     \/ Subscribe
     \/ Unsubscribe
     \/ Unmount
     \/ OtherSends
     \/ Deliver
     \/ SendMessage
     \/ \E i \in 1..MaxMsgs : \E o \in QueryOutcomes : SendInsert(i, o)
     \/ \E i \in 1..MaxMsgs : \E o \in QueryOutcomes : SendDone(i, o)
     \/ \E i \in 1..MaxMsgs : \E o \in QueryOutcomes : LookupDone(i, o)
  /\ UNCHANGED <<authVars, ncVars>>

\* The chat view mounted by a signed-in user, the two stores left as mounted.
ChatStart ==
  /\ AuthInit
  /\ domains = DefaultDomains
  /\ NcInit
  /\ ChatInit
  /\ ToastInit

ChatSpec == ChatStart /\ [][ChatNext]_vars

\* The chat view mounted by a viewer who is signed out or signed in.
ChannelStart ==
  /\ AuthInit
  /\ domains = DefaultDomains
  /\ NcInit
  /\ \E v \in AuthUsers \cup {NULL} : ChatInitAs(v)
  /\ ToastInit

ChannelSpec == ChannelStart /\ [][ChatNext]_vars

\* The provider mounted without toasts, the other components left as mounted.
ToastStart ==
  /\ AuthInit
  /\ domains = DefaultDomains
  /\ NcInit
  /\ ChatInit
  /\ ToastInit

ToastSpec == ToastStart /\ [][ToastNext]_vars

\* -------------------------------------------------------------------- Next
\* The session store with the default allow-list and one identity.
Init ==
  /\ AuthInit
  /\ domains = DefaultDomains
  /\ NcInit
  /\ ChatInit
  /\ ToastInit

Next ==
  /\ \/ \E s \in AuthUsers \cup {NULL} : SetDataSession(s)
     \/ \E why \in {"timeout", "reject"} : SetDataFail(why)
     \/ \E o \in QueryOutcomes : SetDataProfile(o)
     \/ \E k \in EventKinds : \E s \in AuthUsers \cup {NULL} : AuthEvent(k, s)
     \/ \E i \in 1..MaxHandlers : \E o \in QueryOutcomes : HandlerProfile(i, o)
     \/ \E e \in AuthEmails : SignUp(e)
     \/ \E o \in {"error", "throw", "noUser", "noSession"} \cup AuthUsers : SignUpDone(o)
     \/ SignIn
     \/ \E o \in QueryOutcomes : SignInDone(o)
     \/ SignOut
     \/ \E o \in QueryOutcomes : SignOutDone(o)
     \/ \E n \in Names : UpdateUserProfile(n)
     \/ \E o \in QueryOutcomes : UpdateDone(1, o)
  /\ UNCHANGED <<ncVars, chatVars, toastVars>>

Spec == Init /\ [][Next]_vars

\* signUp under every modelled allow-list and every address up to MaxEmailLen.
SignUpInit ==
  /\ AuthInit
  /\ domains \in DomainLists
  /\ NcInit
  /\ ChatInit
  /\ ToastInit

SignUpNext ==
  /\ \/ \E s \in AuthUsers \cup {NULL} : SetDataSession(s)
     \/ \E why \in {"timeout", "reject"} : SetDataFail(why)
     \/ \E o \in QueryOutcomes : SetDataProfile(o)
     \/ \E e \in Emails : SignUp(e)
     \/ \E o \in {"error", "throw", "noUser", "noSession"} \cup AuthUsers : SignUpDone(o)
  /\ UNCHANGED <<ncVars, chatVars, toastVars>>

SignUpSpec == SignUpInit /\ [][SignUpNext]_vars

\* The kinds of event of the flow: TOKEN_REFRESHED stands for every kind the
\* handler does not name.
FlowKinds == {"INITIAL_SESSION", "SIGNED_IN", "SIGNED_OUT", "TOKEN_REFRESHED"}

\* The sign-in and sign-out flow of the store: mount, session-change events,
\* signInWithPassword and signOut.
FlowNext ==
  /\ \/ \E s \in AuthUsers \cup {NULL} : SetDataSession(s)
     \/ \E why \in {"timeout", "reject"} : SetDataFail(why)
     \/ \E o \in QueryOutcomes : SetDataProfile(o)
     \/ \E k \in FlowKinds : \E s \in AuthUsers \cup {NULL} : TrackedEvent(k, s)
     \/ \E i \in 1..MaxHandlers : \E o \in QueryOutcomes : HandlerProfile(i, o)
     \/ SignIn
     \/ \E o \in QueryOutcomes : SignInDone(o)
     \/ SignOut
     \/ \E o \in QueryOutcomes : SignOutDone(o)
  /\ UNCHANGED <<ncVars, chatVars, toastVars>>

\* What the code itself schedules: setData() races getSession() against a
\* 10 s timer (lines 73-79), so its first await ends with a session result,
\* a rejection or the timeout.  No other awaited call has a timeout.
FlowFairness ==
  WF_vars(((\E s \in AuthUsers \cup {NULL} : SetDataSession(s))
             \/ (\E why \in {"timeout", "reject"} : SetDataFail(why)))
            /\ UNCHANGED <<ncVars, chatVars, toastVars>>)

FlowSpec == Init /\ [][FlowNext]_vars /\ FlowFairness

\* One kind of event for each way the handler treats _event: where no signOut()
\* is running, INITIAL_SESSION is handled as SIGNED_IN is, and every kind the
\* handler does not name as TOKEN_REFRESHED is.
OverlapKinds == {"SIGNED_IN", "SIGNED_OUT", "TOKEN_REFRESHED"}

\* Session-change events of either identity whose profile fetches overlap: one
\* more handler than elsewhere may be suspended at a time.
OverlapNext ==
  /\ \/ \E s \in Users \cup {NULL} : SetDataSession(s)
     \/ \E o \in QueryOutcomes : SetDataProfile(o)
     \/ \E k \in OverlapKinds : \E s \in Users \cup {NULL} :
          OnAuthStateChange(k, s, MaxHandlers + 1, "overlap")
     \/ \E i \in 1..(MaxHandlers + 1) : \E o \in QueryOutcomes : HandlerProfile(i, o)
  /\ UNCHANGED <<ncVars, chatVars, toastVars>>

OverlapSpec == Init /\ [][OverlapNext]_vars

\* The provider mounted with a signed-in user: the effect of lines 107-119 has
\* called fetchNotifications(1).
NcInitSignedIn(u) ==
  /\ ncUser = u
  /\ notifications = << >>
  /\ unreadCount = 0
  /\ isLoading = TRUE
  /\ currentPage = 1
  /\ hasMoreNotifications = TRUE
  /\ isDropdownOpen = FALSE
  /\ fetches = << [page |-> 1, stage |-> "page", snap |-> << >>] >>
  /\ marks = << >>
  /\ markAlls = << >>
  /\ refreshes = 0
  /\ ncCalls = 0
  /\ srvRead = [i \in Ids |-> FALSE]
  /\ lastOkPage = 0
  /\ lastNc = LastN("init", "", 0, << >>, 0, << >>)

\* The notification center of one identity, mounted without or with a
\* signed-in user, with the backend's rows all unread at the start.
NotifInit ==
  /\ AuthInit
  /\ domains = DefaultDomains
  /\ NcInit \/ \E u \in AuthUsers : NcInitSignedIn(u)
  /\ ChatInit
  /\ ToastInit

\* Paging: the fetches, loadMore and the bell, with pages whose rows come
\* newest first and may repeat, within a page and across pages.
PagingNext ==
  /\ \/ \E u \in AuthUsers \cup {NULL} : UserChange(u)
     \/ LoadMore
     \/ ToggleDropdown
     \/ \E i \in 1..MaxCalls + 1 : \E p \in RepeatingPages :
          \E c \in Counts : FetchPage(i, "ok", p, c)
     \/ \E i \in 1..MaxCalls + 1 : \E o \in {"error", "throw"} :
          FetchPage(i, o, << >>, NoCount)
     \/ \E i \in 1..MaxCalls + 1 : \E o \in QueryOutcomes : FetchCount(i, o)
  /\ UNCHANGED <<authVars, chatVars, toastVars>>

PagingSpec == NotifInit /\ [][PagingNext]_vars

\* Reading: the fetches and the read-marking operations, with the pages the
\* backend answers (rows newest first, no row twice in a page).
NotifNext ==
  /\ \/ \E u \in AuthUsers \cup {NULL} : UserChange(u)
     \/ LoadMore
     \/ \E i \in 1..MaxCalls + 1 : \E p \in OrderedPages :
          \E c \in Counts : FetchPage(i, "ok", p, c)
     \/ \E i \in 1..MaxCalls + 1 : \E o \in {"error", "throw"} :
          FetchPage(i, o, << >>, NoCount)
     \/ \E i \in 1..MaxCalls + 1 : \E o \in QueryOutcomes : FetchCount(i, o)
     \/ \E id \in Ids : MarkAsRead(id)
     \/ \E i \in 1..MaxCalls : \E o \in QueryOutcomes : MarkAsReadDone(i, o)
     \/ MarkAllAsRead
     \/ \E i \in 1..MaxCalls : \E o \in QueryOutcomes : MarkAllDone(i, o)
     \/ RefreshUnreadCount
     \/ \E o \in QueryOutcomes : RefreshDone(o)
  /\ UNCHANGED <<authVars, chatVars, toastVars>>

NotifSpec == NotifInit /\ [][NotifNext]_vars

\* The operations of the two stores that set a loading flag, side by side:
\* mount, signUp, signInWithPassword, signOut and updateUserProfile of the
\* session store, started one at a time, and the first-page fetches of the
\* notification center with pages that are empty or full; every collaborator
\* call that was issued is eventually answered.
FullOrEmptyPages == {p \in OrderedPages : Len(p) \in {0, NOTIFICATIONS_PER_PAGE}}

LoadingNext ==
  \/ /\ \/ \E s \in AuthUsers \cup {NULL} : SetDataSession(s)
        \/ \E why \in {"timeout", "reject"} : SetDataFail(why)
        \/ \E o \in QueryOutcomes : SetDataProfile(o)
        \/ ~CallPending /\ \E e \in AuthEmails : SignUp(e)
        \/ \E o \in {"error", "throw", "noUser", "noSession"} \cup AuthUsers : SignUpDone(o)
        \/ ~CallPending /\ SignIn
        \/ \E o \in QueryOutcomes : SignInDone(o)
        \/ ~CallPending /\ SignOut
        \/ \E o \in QueryOutcomes : SignOutDone(o)
        \/ ~CallPending /\ \E n \in Names : UpdateUserProfile(n)
        \/ \E o \in QueryOutcomes : UpdateDone(1, o)
     /\ UNCHANGED <<ncVars, chatVars, toastVars>>
  \/ /\ \/ \E u \in AuthUsers \cup {NULL} : UserChange(u)
        \/ \E i \in 1..MaxCalls + 1 : \E p \in FullOrEmptyPages :
             FetchPage(i, "ok", p, NoCount)
        \/ \E i \in 1..MaxCalls + 1 : \E o \in {"error", "throw"} :
             FetchPage(i, o, << >>, NoCount)
        \/ \E i \in 1..MaxCalls + 1 : \E o \in QueryOutcomes : FetchCount(i, o)
     /\ UNCHANGED <<authVars, chatVars, toastVars>>

LoadingFairness ==
  /\ WF_vars(((\E s \in AuthUsers \cup {NULL} : SetDataSession(s))
                \/ (\E o \in QueryOutcomes : SetDataProfile(o)))
               /\ UNCHANGED <<ncVars, chatVars, toastVars>>)
  /\ WF_vars(((\E o \in {"error", "throw", "noUser", "noSession"} \cup AuthUsers :
                  SignUpDone(o))
                \/ (\E o \in QueryOutcomes : SignInDone(o))
                \/ (\E o \in QueryOutcomes : SignOutDone(o))
                \/ (\E o \in QueryOutcomes : UpdateDone(1, o)))
               /\ UNCHANGED <<ncVars, chatVars, toastVars>>)
  /\ WF_vars(((\E i \in 1..MaxCalls + 1 : \E p \in FullOrEmptyPages :
                  FetchPage(i, "ok", p, NoCount))
                \/ (\E i \in 1..MaxCalls + 1 : \E o \in {"error", "throw"} :
                      FetchPage(i, o, << >>, NoCount))
                \/ (\E i \in 1..MaxCalls + 1 : \E o \in QueryOutcomes : FetchCount(i, o)))
               /\ UNCHANGED <<authVars, chatVars, toastVars>>)

LoadingSpec == Init /\ [][LoadingNext]_vars /\ LoadingFairness

\* =================================================================== claims
\* The step leaves session, profile and loading as they were and suspends no
\* handler.
Discarded ==
  /\ session' = session
  /\ user' = user
  /\ loading' = loading
  /\ Len(handlers') = Len(handlers)

\* C1: when a signOut() call returns, whether the auth collaborator's signOut
\* succeeded, returned an error or threw, session and profile are both null.
C1_SignOutClears ==
  lastAuth.op = "signOutDone" => (session = NULL /\ user = NoProfile)

\* a signOut() whose collaborator call threw has returned, with session and
\* profile null
C1_Witness ==
  /\ lastAuth.op = "signOutDone"
  /\ lastAuth.arg = "throw"
  /\ signOutCalls = 0
  /\ session = NULL
  /\ user = NoProfile

\* C2 as claimed: a SIGNED_IN event that arrives after signOut() was requested
\* and before a SIGNED_OUT event has been observed is discarded.
C2_Original ==
  [][(lastAuth'.op = "event" /\ lastAuth'.arg = "SIGNED_IN" /\ soWindow) => Discarded]_vars

\* C2 as the code has it: a SIGNED_IN event carrying an identity is discarded
\* when it arrives after a signOut() request and before the first of a
\* SIGNED_OUT event being observed and a signOut() call returning; after
\* either of the two it is processed.  A SIGNED_IN event without a session
\* is never discarded: it clears the session and the profile.
C2_DiscardWhileSigningOut ==
  [][(lastAuth'.op = "event" /\ lastAuth'.arg = "SIGNED_IN") =>
       IF lastAuth'.who = NULL
         THEN session' = NULL /\ user' = NoProfile /\ lastAuth'.out = "processed"
         ELSE IF soOpen THEN Discarded
              ELSE session' = lastAuth'.who /\ Len(handlers') = Len(handlers) + 1]_vars

\* a SIGNED_IN event arrived while signOut() was suspended and nothing changed
C2_Witness ==
  /\ lastAuth.op = "event"
  /\ lastAuth.arg = "SIGNED_IN"
  /\ lastAuth.who # NULL
  /\ soOpen
  /\ signOutCalls > 0
  /\ session = NULL
  /\ handlers = << >>

\* C3 as claimed: once loading is false it is never true again.
C3_Original == [][~loading => ~loading']_vars

\* C3 as the code has it: loading starts true; it is false when setData()
\* finishes (session result, rejection or the timeout guard) and when the
\* handler of an INITIAL_SESSION, SIGNED_IN or SIGNED_OUT event finishes, after
\* its profile fetch or, for an event without a session, at once; every signUp
\* past the domain check, signInWithPassword, signOut and updateUserProfile
\* of a signed-in user sets it true when it starts and false when it returns,
\* so that loading may be false while another call is suspended; and once
\* setData() has finished it is true only while such a call is suspended.
C3_LoadingBusyFlag ==
  /\ lastAuth.op = "init" => loading
  /\ (lastAuth.op \in {"setDataFail", "setDataProfile"}
        \/ (lastAuth.op = "setDataSession" /\ lastAuth.arg = NULL)) => ~loading
  /\ (lastAuth.op = "handlerProfile"
        /\ lastAuth.arg \in {"INITIAL_SESSION", "SIGNED_IN", "SIGNED_OUT"}) => ~loading
  /\ (lastAuth.op = "event" /\ lastAuth.out = "processed" /\ lastAuth.who = NULL
        /\ lastAuth.arg \in {"INITIAL_SESSION", "SIGNED_IN", "SIGNED_OUT"}) => ~loading
  /\ lastAuth.op \in {"signUp", "signIn", "signOut", "update"} => loading
  /\ lastAuth.op \in {"signUpDone", "signInDone", "signOutDone", "updateDone"} => ~loading
  /\ (loading /\ setDataPc = "done") => CallPending

\* loading is true again after setData() had cleared it: the sign-in just
\* called is the only call suspended
C3_Witness ==
  /\ loading
  /\ setDataPc = "done"
  /\ lastAuth.op = "signIn"
  /\ signInCalls = 1
  /\ signOutCalls + signUpCalls + Len(updateCalls) = 0

\* The domains of an address: the text after its last '@', the whole address
\* when it has none.
IsDomainOf(d, e) ==
  \/ (\A i \in 1..Len(e) : e[i] # "@") /\ d = e
  \/ \E k \in 1..Len(e) :
        /\ e[k] = "@"
        /\ d = SubSeq(e, k + 1, Len(e))
        /\ \A i \in 1..Len(d) : d[i] # "@"

Approved(e) == \E i \in 1..Len(domains) : IsDomainOf(domains[i], e)
Wildcard == domains = << >> \/ domains = << EmptyStr >>

\* C4: signUp with an address whose domain is not in the allow-list returns
\* the domain error without calling the auth collaborator and leaves session,
\* profile and loading unchanged; an address is rejected only for that
\* reason, and with an empty or single-empty-string list no address is rejected.
C4_DomainCheck ==
  [][/\ lastAuth'.op = "signUpRejected" =>
          /\ ~Wildcard /\ ~Approved(lastAuth'.email)
          /\ Discarded
          /\ signUpCalls' = signUpCalls
     /\ lastAuth'.op = "signUp" =>
          /\ Wildcard \/ Approved(lastAuth'.email)
          /\ signUpCalls' = signUpCalls + 1]_vars

\* an address with two '@' was rejected for the text after its last '@',
\* with a session in the store
C4_Witness ==
  /\ lastAuth.op = "signUpRejected"
  /\ session # NULL
  /\ ~loading
  /\ \E i, j \in 1..Len(lastAuth.email) :
        i < j /\ lastAuth.email[i] = "@" /\ lastAuth.email[j] = "@"

\* C11: updateUserProfile(updates) of a logged-in user: when the update
\* succeeds the cached profile is the row the server returned, and when it
\* fails or throws the cached profile is left as it was and the error is
\* returned.
C11_UpdateProfile ==
  [][lastAuth'.op = "updateDone" =>
       IF lastAuth'.arg = "ok"
         THEN /\ user' = [id |-> lastAuth'.who, name |-> dbUsers'[lastAuth'.who]]
              /\ lastAuth'.out = "null"
         ELSE /\ user' = user
              /\ lastAuth'.out # "null"]_vars

\* an update has failed and the profile that was cached is still there
C11_Witness ==
  /\ lastAuth.op = "updateDone"
  /\ lastAuth.arg \in {"error", "throw"}
  /\ user # NoProfile
  /\ ~loading

\* The proviso that every collaborator call of the flow that was issued is
\* eventually answered: the profile fetches of setData() and of the handlers,
\* signInWithPassword and signOut.
CallsReturn ==
  /\ WF_vars((\E o \in QueryOutcomes : SetDataProfile(o)) /\ UNCHANGED <<ncVars, chatVars, toastVars>>)
  /\ WF_vars((\E i \in 1..MaxHandlers : \E o \in QueryOutcomes : HandlerProfile(i, o))
               /\ UNCHANGED <<ncVars, chatVars, toastVars>>)
  /\ WF_vars((\E o \in QueryOutcomes : SignInDone(o)) /\ UNCHANGED <<ncVars, chatVars, toastVars>>)
  /\ WF_vars((\E o \in QueryOutcomes : SignOutDone(o)) /\ UNCHANGED <<ncVars, chatVars, toastVars>>)

\* the profile fetch of a session-change event that carried an identity has
\* just failed
FetchFailed == lastAuth.op = "handlerProfile" /\ lastAuth.out # "ok"

\* C12 as claimed: when the profile fetch of a session-change event that
\* carries an identity fails (error result or exception), the profile is null
\* and the session is left as it is, the event's session having been stored
\* when the event was delivered; and loading is false then or later.
C12_Original ==
  /\ [][FetchFailed' => (user' = NoProfile /\ session' = session)]_vars
  /\ [](lastAuth.op = "event" /\ lastAuth.out = "processed" /\ lastAuth.who # NULL =>
          session = lastAuth.who)
  /\ FetchFailed ~> ~loading

\* C12 as the code has it: the profile is null and the session is left as it
\* is, the event's session having been stored when the event was delivered;
\* the handler of an INITIAL_SESSION, SIGNED_IN or SIGNED_OUT event leaves
\* loading false, the handler of any other kind leaves loading as it was; and
\* loading is false then or later provided every collaborator call that was
\* issued is eventually answered.
C12_ProfileFetchFails ==
  /\ [][FetchFailed' =>
          /\ user' = NoProfile /\ session' = session
          /\ IF lastAuth'.arg \in {"INITIAL_SESSION", "SIGNED_IN", "SIGNED_OUT"}
               THEN ~loading' ELSE loading' = loading]_vars
  /\ [](lastAuth.op = "event" /\ lastAuth.out = "processed" /\ lastAuth.who # NULL =>
          session = lastAuth.who)
  /\ CallsReturn => (FetchFailed ~> ~loading)

\* the profile fetch of a TOKEN_REFRESHED event failed while a sign-in is
\* suspended: the store holds the event's session without a profile, and
\* loading is still true
C12_Witness ==
  /\ lastAuth.op = "handlerProfile"
  /\ lastAuth.arg = "TOKEN_REFRESHED"
  /\ lastAuth.out \in {"error", "throw"}
  /\ session = lastAuth.who
  /\ session # NULL
  /\ user = NoProfile
  /\ signInCalls > 0
  /\ loading

\* the handler of a SIGNED_IN event delivered during a signInWithPassword call
\* is suspended in its profile fetch
SignedInPending ==
  \E i \in 1..Len(handlers) : handlers[i].kind = "SIGNED_IN" /\ handlers[i].inSignIn

\* C13: after a SIGNED_IN event with an identity was delivered in a sign-in,
\* its handler finishes; when it finishes with the fetched row the profile is
\* that row and loading is false; and the successful return of
\* signInWithPassword does not find the profile of the SIGNED_IN event still
\* being fetched, so that loading is not false before the profile is there.
C13_Original ==
  /\ [](lastAuth.op = "handlerProfile" /\ lastAuth.arg = "SIGNED_IN" /\ lastAuth.out = "ok" =>
          /\ user = [id |-> lastAuth.who, name |-> dbUsers[lastAuth.who]]
          /\ ~loading)
  /\ [][(lastAuth'.op = "handlerProfile" /\ lastAuth'.arg = "SIGNED_IN"
            /\ lastAuth'.out = "ok") => session' = session]_vars
  /\ [](lastAuth.op = "signInDone" /\ lastAuth.arg = "ok" /\ SignedInPending => loading)
  /\ CallsReturn =>
        ((lastAuth.op = "event" /\ lastAuth.arg = "SIGNED_IN" /\ lastAuth.out = "processed"
            /\ lastAuth.who # NULL)
           ~> (lastAuth.op = "handlerProfile" /\ lastAuth.arg = "SIGNED_IN"))

\* C14: every INSERT event received on the project chat channel appends one
\* record to the tail of the message list, with the sender's profile when the
\* sender lookup succeeds and the raw record when it fails (error result or
\* exception).
C14_Original ==
  (lastChat.op = "lookupDone" /\ chatMounted) =>
     /\ Len(messages) = Len(lastChat.pre) + 1
     /\ SubSeq(messages, 1, Len(lastChat.pre)) = lastChat.pre
     /\ messages[Len(messages)] = [id |-> lastChat.id, sender_user |-> lastChat.out = "ok",
                                   pushed |-> TRUE]

\* C15: the message list of the project chat never holds two entries with the
\* same message id.
C15_Original == \A j, k \in 1..Len(messages) : messages[j].id = messages[k].id => j = k

\* the list of the last step's start without the toast the step was about
OthersBefore ==
  LET keep == {k \in 1..Len(lastToast.pre) : lastToast.pre[k].id # lastToast.id}
  IN  {lastToast.pre[k] : k \in keep}

\* C16: a toast is removed by its timer exactly when its time-to-live has
\* elapsed since it was added and not before, so that no toast outlives its
\* time-to-live; dismiss(id) removes it at any earlier time; and adding or
\* removing a toast leaves every other toast and the time its timer has run
\* as they are.
C16_ToastTimers ==
  /\ \A k \in 1..Len(toasts) : toasts[k].age <= toasts[k].duration
  /\ lastToast.op = "timer" => lastToast.age = lastToast.duration
  /\ lastToast.op \in {"timer", "dismiss"} =>
        /\ \A k \in 1..Len(toasts) : toasts[k].id # lastToast.id
        /\ {toasts[k] : k \in 1..Len(toasts)} = OthersBefore
        /\ Len(toasts) = Len(lastToast.pre) - 1
  /\ lastToast.op = "add" =>
        /\ Len(toasts) = Len(lastToast.pre) + 1
        /\ SubSeq(toasts, 1, Len(lastToast.pre)) = lastToast.pre
        /\ toasts[Len(toasts)] = [id |-> lastToast.id, duration |-> lastToast.duration,
                                  age |-> 0]
  /\ lastToast.op = "tick" =>
        /\ Len(toasts) = Len(lastToast.pre)
        /\ \A k \in 1..Len(toasts) : toasts[k].age = lastToast.pre[k].age + 1

\* the timer of a toast has removed it while a toast added later, with a
\* longer time-to-live, is still shown with its own timer running
C16_Witness ==
  /\ lastToast.op = "timer"
  /\ lastToast.duration = 1
  /\ \E k \in 1..Len(toasts) :
        /\ toasts[k].id > lastToast.id
        /\ toasts[k].age > 0
        /\ toasts[k].age < toasts[k].duration

\* C17: every collaborator call being answered, the loading flag of the
\* session store and the isLoading flag of the notification center are each
\* false again after any step that left them true, whatever the answers.
C17_LoadingFlagsClear ==
  /\ loading ~> ~loading
  /\ isLoading ~> ~isLoading

\* a page fetch of the notification center has failed and a signUp has
\* thrown, and both flags are false
C17_Witness ==
  /\ lastNc.op = "fetchPage"
  /\ lastNc.arg \in {"error", "throw"}
  /\ ~isLoading
  /\ lastAuth.op = "signUpDone"
  /\ lastAuth.arg = "throw"
  /\ ~loading

\* C18: when the profile fetch of a handler that was suspended while signOut()
\* was called settles after that signOut() has returned, with session and
\* profile still null, session and profile are null afterwards.
C18_Original ==
  [][(/\ lastAuth'.op = "handlerProfile"
      /\ \E i \in 1..Len(handlers) :
            handlers[i].so = "returned" /\ handlers' = RemoveAt(handlers, i)
      /\ session = NULL
      /\ user = NoProfile)
     => (session' = NULL /\ user' = NoProfile)]_vars

\* C19: whenever the profile fetch of an event handler settles, the profile
\* becomes the result of that fetch, also when the handler of an event
\* delivered later has already written its own result.
C19_LastResolvedWins ==
  lastAuth.op = "handlerProfile" =>
     user = IF lastAuth.out = "ok"
              THEN [id |-> lastAuth.who, name |-> dbUsers[lastAuth.who]]
              ELSE NoProfile

\* the fetch of the older of two overlapping events settled last, after the
\* handler of the newer event, and the profile is that of the older event
\* while the session is the other identity's
C19_Witness ==
  /\ lastAuth.op = "handlerProfile"
  /\ lastAuth.late
  /\ lastAuth.out = "ok"
  /\ session # NULL
  /\ session # lastAuth.who
  /\ user.id = lastAuth.who

\* C20: once the handler has started on an event that the sign-out guard let
\* through, the stored session is the event's session, null included; an event
\* without identity has then also finished, and the profile is null.
C20_EventReplacesSession ==
  lastAuth.op = "event" /\ lastAuth.out = "processed" =>
     /\ session = lastAuth.who
     /\ (lastAuth.who = NULL => user = NoProfile)

\* an event without a session was processed after the mount, and session and
\* profile are null
C20_Witness ==
  /\ lastAuth.op = "event"
  /\ lastAuth.out = "processed"
  /\ lastAuth.who = NULL
  /\ setDataPc = "done"
  /\ session = NULL
  /\ user = NoProfile

\* the handler of a processed event has just finished: its profile fetch
\* settled, or the event carried no session
HandlerFinished ==
  \/ lastAuth.op = "handlerProfile"
  \/ lastAuth.op = "event" /\ lastAuth.out = "processed" /\ lastAuth.who = NULL

\* C21 as stated: when the handler of a processed event of any kind has
\* finished, loading is false.
C21_Original == HandlerFinished => ~loading

\* C21: when the handler of a processed INITIAL_SESSION, SIGNED_IN or
\* SIGNED_OUT event has finished, loading is false; the handler of an event of
\* another kind leaves loading as it found it.
C21_HandlerClearsLoading ==
  [][HandlerFinished' =>
       IF lastAuth'.arg \in {"INITIAL_SESSION", "SIGNED_IN", "SIGNED_OUT"}
         THEN ~loading'
         ELSE loading' = loading]_vars

\* the handler of a SIGNED_IN event finished its profile fetch while the
\* sign-in that set loading is suspended, and loading is false
C21_Witness ==
  /\ lastAuth.op = "handlerProfile"
  /\ lastAuth.arg = "SIGNED_IN"
  /\ signInCalls > 0
  /\ ~loading

\* the step assigns the session or the profile a different value
SessionAssigned == session' # session
ProfileAssigned == user' # user

\* C22 as stated: session and profile change only in a step of the event
\* handler, in signOut's clear and in a successful updateUserProfile; the
\* return of signInWithPassword and of signUp changes neither.
C22_Original ==
  [][/\ (SessionAssigned \/ ProfileAssigned) =>
          \/ lastAuth'.op \in {"event", "handlerProfile", "signOutDone"}
          \/ lastAuth'.op = "updateDone" /\ lastAuth'.arg = "ok"
     /\ lastAuth'.op \in {"signIn", "signInDone", "signUp", "signUpRejected", "signUpDone"} =>
          ~SessionAssigned /\ ~ProfileAssigned]_vars

\* C22: session and profile change only in the initial load of the mount, in a
\* step of the event handler, in signOut's clear, in a successful
\* updateUserProfile (profile only) and in the return of a signUp that was
\* answered with an immediate session (session only, set to that session);
\* signInWithPassword changes neither, for every outcome.
C22_WhoAssigns ==
  [][/\ (SessionAssigned \/ ProfileAssigned) =>
          \/ lastAuth'.op \in {"setDataSession", "setDataFail", "setDataProfile"}
          \/ lastAuth'.op \in {"event", "handlerProfile", "signOutDone"}
          \/ lastAuth'.op = "updateDone" /\ lastAuth'.arg = "ok" /\ ~SessionAssigned
          \/ /\ lastAuth'.op = "signUpDone"
             /\ lastAuth'.arg \in Users
             /\ session' = lastAuth'.arg
             /\ ~ProfileAssigned
     /\ lastAuth'.op \in {"signIn", "signInDone", "signUp", "signUpRejected"} =>
          ~SessionAssigned /\ ~ProfileAssigned]_vars

\* signInWithPassword returned successfully, and the store is without session
\* and profile
C22_Witness ==
  /\ lastAuth.op = "signInDone"
  /\ lastAuth.arg = "ok"
  /\ session = NULL
  /\ user = NoProfile

\* C26: when the 10-second guard on the initial getSession() fires in a store
\* that already holds a session, the session and the profile are the ones held
\* before and loading is false.
C26_Original ==
  [][(lastAuth'.op = "setDataFail" /\ lastAuth'.arg = "timeout" /\ session # NULL) =>
       /\ session' = session
       /\ user' = user
       /\ ~loading']_vars

\* ---------------------------------------------- notification center claims
Quiescent == fetches = << >> /\ marks = << >> /\ markAlls = << >> /\ refreshes = 0

\* the read flags the rows with id `id` have in `list`
FlagsOf(list, id) == {list[k].is_read : k \in {j \in 1..Len(list) : list[j].id = id}}

NoDuplicateIds(list) ==
  \A j, k \in 1..Len(list) : list[j].id = list[k].id => j = k

\* C5: a markAsRead(id) whose backend call fails (error result or exception)
\* right after the call leaves the read flag of the item and the unread
\* counter at the values they had before the call.
C5_Original ==
  (lastNc.op = "markAsReadFail" /\ lastNc.arg = "direct") =>
     /\ FlagsOf(notifications, lastNc.id) = FlagsOf(lastNc.snap, lastNc.id)
     /\ unreadCount = lastNc.count

\* C6: markAllAsRead() has every local item read and the counter at 0 before
\* the backend call resolves, and a failed backend call restores the list and
\* the counter the call started from.
C6_MarkAllOptimisticAndRollback ==
  /\ lastNc.op = "markAll" =>
        /\ markAlls # << >>
        /\ \A k \in 1..Len(notifications) : notifications[k].is_read
        /\ Len(notifications) = Len(lastNc.snap)
        /\ unreadCount = 0
  /\ lastNc.op = "markAllFail" =>
        /\ notifications = lastNc.snap
        /\ unreadCount = lastNc.count

\* a markAllAsRead() over a list with unread rows and a positive counter has
\* failed and the list shows the unread rows again
C6_Witness ==
  /\ lastNc.op = "markAllFail"
  /\ lastNc.count > 0
  /\ \E k \in 1..Len(lastNc.snap) : ~lastNc.snap[k].is_read
  /\ \E k \in 1..Len(notifications) : ~notifications[k].is_read

\* C7: a successful fetch of page 1 replaces the list with exactly the page
\* returned, and a successful fetch of a page n > 1 into a list without
\* duplicate ids leaves no two items with the same id, whatever rows the page
\* repeats.
C7_Original ==
  [][(lastNc'.op = "fetchPage" /\ lastNc'.arg = "ok") =>
       IF lastNc'.id = 1
         THEN /\ Len(notifications') = Len(lastNc'.page)
              /\ \A k \in 1..Len(notifications') :
                    notifications'[k] = [id |-> lastNc'.page[k],
                                         is_read |-> srvRead[lastNc'.page[k]]]
         ELSE NoDuplicateIds(notifications) => NoDuplicateIds(notifications')]_vars

\* C8 as claimed: after a page fetch hasMore is true exactly if the page
\* returned has the requested page size.
C8_Original ==
  lastNc.op = "fetchPage" =>
     (hasMoreNotifications <=> Len(lastNc.page) = NOTIFICATIONS_PER_PAGE)

\* the number of items fetched so far, as a fetch of page number lastNc.id
\* counts it: the rows of page 1, or the rows of the list the call started
\* from and the returned rows whose id is not among them
FetchedSoFar ==
  IF lastNc.id = 1 THEN Len(lastNc.page)
  ELSE Len(lastNc.snap)
       + Cardinality({k \in 1..Len(lastNc.page) :
                        \A j \in 1..Len(lastNc.snap) : lastNc.snap[j].id # lastNc.page[k]})

\* C8 as the code has it: after a successful page fetch hasMore is true exactly
\* if the page has the requested page size and the response carries no total
\* count or a total count above the number of items fetched so far; after a
\* failed page fetch hasMore is false.
C8_HasMore ==
  lastNc.op = "fetchPage" =>
     (hasMoreNotifications <=>
        /\ lastNc.arg = "ok"
        /\ Len(lastNc.page) = NOTIFICATIONS_PER_PAGE
        /\ (lastNc.count # NoCount => FetchedSoFar < lastNc.count))

\* a full page arrived with a total count that the items fetched so far reach
C8_Witness ==
  /\ lastNc.op = "fetchPage"
  /\ lastNc.arg = "ok"
  /\ Len(lastNc.page) = NOTIFICATIONS_PER_PAGE
  /\ lastNc.count # NoCount
  /\ ~hasMoreNotifications

NcVisible == <<notifications, unreadCount, isLoading, currentPage,
               hasMoreNotifications, fetches, marks, markAlls, refreshes, srvRead>>

C10_Original ==
  (Quiescent /\ ncUser # NULL) => unreadCount = ServerUnread

\* the fetchNotifications calls whose page query is unresolved
PagesInFlight == {i \in 1..Len(fetches) : fetches[i].stage = "page"}

\* C23: at most one page query of the notification list is unresolved at any
\* time.
C23_Original == Cardinality(PagesInFlight) <= 1

\* the fetchNotifications calls suspended in the count query
CountsInFlight == {i \in 1..Len(fetches) : fetches[i].stage = "count"}

\* C24 as stated: the answer to a page query, success or failure, is followed
\* by a count query of the same call.
C24_Original ==
  [][lastNc'.op = "fetchPage" =>
       Cardinality(CountsInFlight') = Cardinality(CountsInFlight) + 1]_vars

\* C24: a page query that succeeded is followed by a count query of the same
\* call, which is still running; a page query that failed ends the call with
\* no count query and the counter as it was; and a count query that succeeds
\* sets the counter to the backend's number of unread rows, one that fails
\* leaves it.
C24_RequeryAfterFetch ==
  [][/\ (lastNc'.op = "fetchPage" /\ lastNc'.arg = "ok") =>
          /\ Cardinality(CountsInFlight') = Cardinality(CountsInFlight) + 1
          /\ Len(fetches') = Len(fetches)
          /\ unreadCount' = unreadCount
     /\ (lastNc'.op = "fetchPage" /\ lastNc'.arg # "ok") =>
          /\ Cardinality(CountsInFlight') = Cardinality(CountsInFlight)
          /\ Len(fetches') = Len(fetches) - 1
          /\ unreadCount' = unreadCount
     /\ lastNc'.op = "fetchCount" =>
          /\ Len(fetches') = Len(fetches) - 1
          /\ unreadCount' = IF lastNc'.arg = "ok" THEN ServerUnread ELSE unreadCount]_vars

\* the count query of a fetch succeeded and the counter is the backend's
\* number, which differs from the number of unread rows of the list
C24_Witness ==
  /\ lastNc.op = "fetchCount"
  /\ lastNc.arg = "ok"
  /\ unreadCount = ServerUnread
  /\ unreadCount # Cardinality({k \in 1..Len(notifications) : ~notifications[k].is_read})

\* C27: the rollback of a failed markAsRead(id) keeps every other item of the
\* list as it is, with its read flag: what page fetches appended and what other
\* read-marking calls flipped since the call started is still in the list.
C27_Original ==
  [][lastNc'.op = "markAsReadFail" =>
       \A k \in 1..Len(notifications) :
          notifications[k].id # lastNc'.id =>
             \E j \in 1..Len(notifications') : notifications'[j] = notifications[k]]_vars

\* C28: while the notification center has no user, the list is empty and the
\* unread counter is 0, whatever query of an earlier user resolves meanwhile.
C28_Original ==
  ncUser = NULL => (notifications = << >> /\ unreadCount = 0)

\* C25: a realtime channel of the project chat is subscribed only while the
\* viewer is the owner or an accepted contributor of the loaded project, and
\* never after the page has unmounted.
C25_Original ==
  chatSubscribed => (chatMounted /\ chatViewer # NULL /\ chatProject = "chat")

\* C29: the messages that came from INSERT events stand in the list in the
\* order in which the events were delivered, which is the order of their ids.
C29_Original ==
  \A j, k \in 1..Len(messages) :
     (j < k /\ messages[j].pushed /\ messages[k].pushed) => messages[j].id < messages[k].id

\* C30: when the initial messages query is applied, every message that the
\* INSERT handler had appended to the list is still in the list.
C30_Original ==
  [][lastChat'.op = "messagesLoaded" =>
       \A k \in 1..Len(messages) :
          messages[k].pushed =>
             \E j \in 1..Len(messages') : messages'[j].id = messages[k].id]_vars

====
